---- MODULE Spec2Model ----
(***************************************************************************)
(* A model of pyroutingtable: an IP routing table kept in two retrieval     *)
(* trees, IPPrefixTree (one bit per edge) and IPRadixTree (path-compressed).*)
(*                                                                         *)
(* Python objects are modelled as a heap: a sequence of objects, object 1   *)
(* being the root dict.  A dict is an insertion-ordered sequence of         *)
(* entries (key, reference); a list is a sequence of Route records.  Keys   *)
(* are strings over the characters "0", "1" and "*", written 0, 1 and Star. *)
(* An operation is an operator from a table to the table after the call     *)
(* together with the exception it raised (or "none") and its return value.  *)
(***************************************************************************)
EXTENDS Integers, Sequences, FiniteSets, TLC

\* Width of an IPv4 address in bits (32 in the source), scaled down.
W4 == 1
\* Width of an IPv6 address in bits (128 in the source), scaled down.
W6 == 3
\* The largest number of Route objects a table is allowed to hold when the
\* calls go to one table.
MaxRoutes == 3
\* The same, when the calls go to a table of each kind.
MaxRoutesBoth == 2
\* The calls made on a table between two next() of one iteration.
MaxMutations == 1
\* The routes a table may hold when one more is added before a flush taken
\* turn by turn.
MaxFlushRoutes == 1

\* The character "*" of a dict key; bits are the characters 0 and 1.
Star == 2
StarKey == <<Star>>

Versions == {4, 6}
Width(ver) == IF ver = 4 THEN W4 ELSE W6

RECURSIVE Pow2(_)
Pow2(n) == IF n = 0 THEN 1 ELSE 2 * Pow2(n - 1)

\* The attribute maps (kwargs) of the model: a set of <<name, value>> pairs.
AttrMaps == { {}, {<<"via", 1>>} }

\* Textual prefixes a caller may pass: any address with any length.
RawPrefixes ==
    { [ver |-> v, addr |-> a, len |-> l] :
        v \in {4}, a \in 0..(Pow2(W4) - 1), l \in 0..W4 }
    \cup
    { [ver |-> v, addr |-> a, len |-> l] :
        v \in {6}, a \in 0..(Pow2(W6) - 1), l \in 0..W6 }

\* ip_network(prefix, strict=False): host bits are masked off.
ip_network(raw) ==
    LET host == Pow2(Width(raw.ver) - raw.len)
    IN  [ver |-> raw.ver, net |-> (raw.addr \div host) * host, len |-> raw.len]

\* The prefixes the sanitize decorator hands to the methods.
Prefixes == { ip_network(raw) : raw \in RawPrefixes }

\* "{:032b}".format(n): the bits of n, most significant first, in w digits.
FormatBits(n, w) == [i \in 1..w |-> (n \div Pow2(w - i)) % 2]

bits_in_prefix(prefix) ==
    SubSeq(FormatBits(prefix.net, Width(prefix.ver)), 1, prefix.len)

Drop(s, n) == SubSeq(s, n + 1, Len(s))
Min(a, b) == IF a < b THEN a ELSE b

\* The longest common leading part of two strings (zip_longest stops at the
\* first position where the characters differ or one string has ended).
bits_in_common(x_bits, y_bits) ==
    LET m == Min(Len(x_bits), Len(y_bits))
        n == CHOOSE n \in 0..m :
                /\ \A i \in 1..n : x_bits[i] = y_bits[i]
                /\ (n = m \/ x_bits[n + 1] # y_bits[n + 1])
    IN  SubSeq(x_bits, 1, n)

Route(prefix, attrs) == [prefix |-> prefix, attrs |-> attrs]

\* getattr(obj, attr) == val for every requested attribute; an absent
\* attribute raises AttributeError, which is answered False.
has_all_attrs(obj, attrs) == \A kv \in attrs : kv \in obj.attrs

objs_with_all_attrs(objs, attrs) ==
    SelectSeq(objs, LAMBDA obj : has_all_attrs(obj, attrs))

InList(x, s) == \E i \in 1..Len(s) : s[i] = x

(***************************************************************************)
(* Heap objects.                                                           *)
(***************************************************************************)
NewDict == [isList |-> FALSE, ents |-> <<>>, routes |-> <<>>]
NewList == [isList |-> TRUE, ents |-> <<>>, routes |-> <<>>]
Entry(k, ref) == [k |-> k, ref |-> ref]

HasKey(d, k) == \E i \in 1..Len(d.ents) : d.ents[i].k = k
\* d[k]
Ref(d, k) == d.ents[CHOOSE i \in 1..Len(d.ents) : d.ents[i].k = k].ref
\* del d[k]
DictDel(d, k) == [d EXCEPT !.ents = SelectSeq(@, LAMBDA e : e.k # k)]
\* d[k] = ref: an existing key keeps its place, a new key goes last.
DictSet(d, k, ref) ==
    IF HasKey(d, k)
    THEN [d EXCEPT !.ents = [i \in 1..Len(@) |->
                                IF @[i].k = k THEN Entry(k, ref) ELSE @[i]]]
    ELSE [d EXCEPT !.ents = Append(@, Entry(k, ref))]
\* len(d)
DictLen(d) == Len(d.ents)

\* A shallow copy of the dict's items without the unwanted key.
new_dict_without_key(unwanted_key, dct) ==
    SelectSeq(dct.ents, LAMBDA e : e.k # unwanted_key)

\* The element of a set of one element.  Only({ e(x) : x \in {v} }) is e(v),
\* with v evaluated once however often e uses it.
Only(S) == CHOOSE x \in S : TRUE

\* The objects reachable from an object, in depth-first order.
RECURSIVE Reach(_, _)
RECURSIVE ReachAll(_, _, _)
Reach(h, id) == <<id>> \o ReachAll(h, h[id].ents, 1)
ReachAll(h, ents, i) ==
    IF i > Len(ents) THEN <<>>
    ELSE Reach(h, ents[i].ref) \o ReachAll(h, ents, i + 1)

\* Garbage collection: keep the objects reachable from the root, numbered in
\* depth-first order.  Object identity carries no other information.
Collect(h) ==
    LET order == Reach(h, 1)
        newId(old) == CHOOSE i \in 1..Len(order) : order[i] = old
    IN  [i \in 1..Len(order) |->
            [h[order[i]] EXCEPT !.ents =
                [j \in 1..Len(@) |-> Entry(@[j].k, newId(@[j].ref))]]]

\* A table: the heap rooted at self._root, and self._counter.
Table(h, c) == [heap |-> h, counter |-> c]
\* __init__
NewTable == Table(<<NewDict>>, 0)
\* The outcome of a call: the table after it, the exception, the return value.
Outcome(t, err, val) == [t |-> t, err |-> err, val |-> val]

(***************************************************************************)
(* IPPrefixTree.add                                                        *)
(***************************************************************************)
\* pointer.setdefault(key, {}) or pointer.setdefault(key, []): the heap
\* after it and the object it returns.
SetDefault(h, pointer, key, fresh) ==
    IF HasKey(h[pointer], key)
    THEN [h |-> h, ref |-> Ref(h[pointer], key)]
    ELSE [h |-> Append([h EXCEPT ![pointer] = DictSet(@, key, Len(h) + 1)], fresh),
          ref |-> Len(h) + 1]

\* routes = pointer.setdefault("*", []); append the route unless it is in.
InstallRoute(t, h, pointer, route) ==
    LET sd == SetDefault(h, pointer, StarKey, NewList)
        routes == sd.ref
    IN  IF InList(route, sd.h[routes].routes)
        THEN Table(sd.h, t.counter)
        ELSE Table([sd.h EXCEPT ![routes].routes = Append(@, route)],
                   t.counter + 1)

RECURSIVE IPPrefixTree_add_walk(_, _, _)
IPPrefixTree_add_walk(h, pointer, bits) ==
    IF bits = <<>> THEN [h |-> h, pointer |-> pointer]
    ELSE LET sd == SetDefault(h, pointer, <<Head(bits)>>, NewDict)
         IN  IPPrefixTree_add_walk(sd.h, sd.ref, Tail(bits))

IPPrefixTree_add(t, prefix, attrs) ==
    LET w == IPPrefixTree_add_walk(t.heap, 1, bits_in_prefix(prefix))
    IN  Outcome(InstallRoute(t, w.h, w.pointer, Route(prefix, attrs)),
                "none", <<>>)

(***************************************************************************)
(* IPRadixTree.add                                                         *)
(***************************************************************************)
RECURSIVE IPRadixTree_add_walk(_, _, _, _)
IPRadixTree_add_walk(h, pointer, nodes, prefix_bits) ==
    IF nodes = <<>> \/ prefix_bits = <<>>
    THEN [h |-> h, pointer |-> pointer, prefix_bits |-> prefix_bits]
    ELSE
      LET item == nodes[Len(nodes)]
          rest == SubSeq(nodes, 1, Len(nodes) - 1)
          node_bits == item.k
          children == item.ref
          common_bits == bits_in_common(node_bits, prefix_bits)
          remaining == Drop(prefix_bits, Len(common_bits))
      IN
        IF common_bits = <<>>
        THEN IPRadixTree_add_walk(h, pointer, rest, prefix_bits)
        ELSE IF common_bits = node_bits
        THEN IPRadixTree_add_walk(h, children,
                 new_dict_without_key(StarKey, h[children]), remaining)
        ELSE
          \* split the edge: the common part leads to a new node that keeps
          \* the old child under the rest of the old label
          LET remaining_node_bits == Drop(node_bits, Len(common_bits))
              new == Len(h) + 1
              h1 == [h EXCEPT ![pointer] =
                        DictSet(DictDel(@, node_bits), common_bits, new)]
              h2 == Append(h1, [NewDict EXCEPT !.ents =
                                   <<Entry(remaining_node_bits, children)>>])
          IN  [h |-> h2, pointer |-> new, prefix_bits |-> remaining]

IPRadixTree_add(t, prefix, attrs) ==
    LET w == IPRadixTree_add_walk(t.heap, 1,
                 new_dict_without_key(StarKey, t.heap[1]), bits_in_prefix(prefix))
        new == Len(w.h) + 1
        h1 == IF w.prefix_bits # <<>>
              THEN Append([w.h EXCEPT ![w.pointer] =
                              DictSet(@, w.prefix_bits, new)], NewDict)
              ELSE w.h
        pointer == IF w.prefix_bits # <<>> THEN new ELSE w.pointer
    IN  Outcome(InstallRoute(t, h1, pointer, Route(prefix, attrs)), "none", <<>>)

(***************************************************************************)
(* delete and flush                                                        *)
(***************************************************************************)
\* The exception the sanitize decorator turns a KeyError into.
RoutingTableValidationError == "RoutingTableValidationError"
\* flush(prefix=None)
None == [ver |-> 0, net |-> 0, len |-> 0]

\* The loop with its test of has_all_attrs left out: every route goes.
RemoveMatching_Every(routes, attrs) == <<>>

\* for route in routes.copy(): remove the routes that have all attrs
RemoveMatching(routes, attrs) ==
    SelectSeq(routes, LAMBDA route : ~has_all_attrs(route, attrs))

\* self._root.clear(); self._counter = 0
ClearRoot(t) == Table([t.heap EXCEPT ![1] = NewDict], 0)

\* The walk with the test len(pointer) > 1 left out: the node remembered is
\* always the one just above the node of the prefix.
RECURSIVE IPPrefixTree_delete_walk_Above(_, _, _, _, _)
IPPrefixTree_delete_walk_Above(h, pointer, bits, parent_prefix_node, branching_bit) ==
    IF bits = <<>>
    THEN [err |-> "none", pointer |-> pointer,
          parent_prefix_node |-> parent_prefix_node,
          branching_bit |-> branching_bit]
    ELSE
      LET bit == <<Head(bits)>>
      IN  IF ~HasKey(h[pointer], bit)
          THEN [err |-> "KeyError", pointer |-> pointer,
                parent_prefix_node |-> 0, branching_bit |-> <<>>]
          ELSE IPPrefixTree_delete_walk_Above(h, Ref(h[pointer], bit), Tail(bits),
                                              pointer, bit)

\* The walk of IPPrefixTree.delete: the node of the prefix, and the last node
\* above it that has more than one key with the bit that left it (0: None).
RECURSIVE IPPrefixTree_delete_walk(_, _, _, _, _)
IPPrefixTree_delete_walk(h, pointer, bits, parent_prefix_node, branching_bit) ==
    IF bits = <<>>
    THEN [err |-> "none", pointer |-> pointer,
          parent_prefix_node |-> parent_prefix_node,
          branching_bit |-> branching_bit]
    ELSE
      LET bit == <<Head(bits)>>
          branching == DictLen(h[pointer]) > 1
      IN  IF ~HasKey(h[pointer], bit)
          THEN [err |-> "KeyError", pointer |-> pointer,
                parent_prefix_node |-> 0, branching_bit |-> <<>>]
          ELSE IPPrefixTree_delete_walk(h, Ref(h[pointer], bit), Tail(bits),
                   IF branching THEN pointer ELSE parent_prefix_node,
                   IF branching THEN bit ELSE branching_bit)

IPPrefixTree_delete(t, prefix, attrs) ==
    Only({
      LET pointer == w.pointer
      IN
      IF w.err # "none" \/ ~HasKey(t.heap[pointer], StarKey)
      THEN Outcome(t, RoutingTableValidationError, <<>>)
      ELSE
        LET routes == Ref(t.heap[pointer], StarKey)
            before == t.heap[routes].routes
            after == IF attrs # {} THEN RemoveMatching(before, attrs) ELSE before
            something_removed == Len(after) < Len(before)
            t1 == Table([t.heap EXCEPT ![routes].routes = after],
                        t.counter - (Len(before) - Len(after)))
        IN
          IF attrs # {} /\ ~something_removed
          THEN Outcome(t, RoutingTableValidationError, <<>>)
          ELSE IF ~(attrs = {} \/ after = <<>>)
          THEN Outcome(t1, "none", <<>>)
          ELSE IF DictLen(t1.heap[pointer]) > 1
          THEN Outcome(Table([t1.heap EXCEPT ![pointer] = DictDel(@, StarKey)],
                             t1.counter - Len(after)), "none", <<>>)
          ELSE IF w.parent_prefix_node # 0
          THEN Outcome(Table([t1.heap EXCEPT ![w.parent_prefix_node] =
                                 DictDel(@, w.branching_bit)],
                             t1.counter - Len(after)), "none", <<>>)
          ELSE Outcome(ClearRoot(t1), "none", <<>>)
      : w \in { IPPrefixTree_delete_walk(t.heap, 1, bits_in_prefix(prefix),
                                         0, <<>>) } })

\* One turn of the walk of IPRadixTree.delete, taken while nodes and
\* prefix_bits are both non-empty.
IPRadixTree_delete_step(h, pointer, nodes, prefix_bits, parents) ==
    LET item == nodes[Len(nodes)]
        rest == SubSeq(nodes, 1, Len(nodes) - 1)
        node_bits == item.k
        children == item.ref
        common_bits == bits_in_common(node_bits, prefix_bits)
        stored == Append(parents, [parent |-> pointer, parent_bits |-> node_bits,
                                   children |-> children])
    IN  IF common_bits = node_bits
        THEN [pointer |-> children,
              nodes |-> new_dict_without_key(StarKey, h[children]),
              prefix_bits |-> Drop(prefix_bits, Len(common_bits)),
              parents |-> SubSeq(stored, Len(stored) - Min(Len(stored), 2) + 1,
                                 Len(stored))]
        ELSE [pointer |-> pointer, nodes |-> rest, prefix_bits |-> prefix_bits,
              parents |-> parents]

\* The walk of IPRadixTree.delete: the node reached, the bits left over and
\* the last two [parent, parent_bits, children] triples.
RECURSIVE IPRadixTree_delete_walk(_, _, _, _, _)
IPRadixTree_delete_walk(h, pointer, nodes, prefix_bits, parents) ==
    IF nodes = <<>> \/ prefix_bits = <<>>
    THEN [pointer |-> pointer, prefix_bits |-> prefix_bits, parents |-> parents]
    ELSE Only({ IPRadixTree_delete_walk(h, turn.pointer, turn.nodes,
                                        turn.prefix_bits, turn.parents) :
                    turn \in { IPRadixTree_delete_step(h, pointer, nodes,
                                                       prefix_bits, parents) } })

\* A delete that detaches emptied nodes but never splices a node left with
\* one item (the code without lines 1086-1090): what node retention rules out.
RECURSIVE IPRadixTree_delete_merge_NoSplice(_, _)
IPRadixTree_delete_merge_NoSplice(h, parents) ==
    IF parents = <<>> THEN h
    ELSE
      LET top == parents[Len(parents)]
          rest == SubSeq(parents, 1, Len(parents) - 1)
      IN  IF DictLen(h[top.children]) = 0
          THEN IPRadixTree_delete_merge_NoSplice(
                   [h EXCEPT ![top.parent] = DictDel(@, top.parent_bits)], rest)
          ELSE IPRadixTree_delete_merge_NoSplice(h, rest)

\* while parents: detach an emptied node, or splice a node that is left with
\* one item into the edge that leads to it.
RECURSIVE IPRadixTree_delete_merge(_, _)
IPRadixTree_delete_merge(h, parents) ==
    IF parents = <<>> THEN h
    ELSE
      LET top == parents[Len(parents)]
          rest == SubSeq(parents, 1, Len(parents) - 1)
          children == h[top.children]
      IN  IF DictLen(children) = 0
          THEN IPRadixTree_delete_merge(
                   [h EXCEPT ![top.parent] = DictDel(@, top.parent_bits)], rest)
          ELSE IF DictLen(children) = 1
          THEN LET child_bits == children.ents[1].k
                   child == children.ents[1].ref
               IN  IPRadixTree_delete_merge(
                       [h EXCEPT ![top.children] = NewDict,
                                 ![top.parent] = DictSet(DictDel(@, top.parent_bits),
                                                         top.parent_bits \o child_bits,
                                                         child)],
                       rest)
          ELSE IPRadixTree_delete_merge(h, rest)

IPRadixTree_delete(t, prefix, attrs) ==
    Only({
      LET pointer == w.pointer
      IN
      IF w.prefix_bits # <<>> \/ ~HasKey(t.heap[pointer], StarKey)
      THEN Outcome(t, RoutingTableValidationError, <<>>)
      ELSE
        LET routes == Ref(t.heap[pointer], StarKey)
            before == t.heap[routes].routes
            after == IF attrs # {} THEN RemoveMatching(before, attrs) ELSE before
            something_removed == Len(after) < Len(before)
            t1 == Table([t.heap EXCEPT ![routes].routes = after],
                        t.counter - (Len(before) - Len(after)))
        IN
          IF attrs # {} /\ ~something_removed
          THEN Outcome(t, RoutingTableValidationError, <<>>)
          ELSE IF ~(attrs = {} \/ after = <<>>)
          THEN Outcome(t1, "none", <<>>)
          ELSE Outcome(Table(IPRadixTree_delete_merge(
                                 [t1.heap EXCEPT ![pointer] = DictDel(@, StarKey)],
                                 w.parents),
                             t1.counter - Len(after)), "none", <<>>)
      : w \in { IPRadixTree_delete_walk(t.heap, 1,
                    new_dict_without_key(StarKey, t.heap[1]),
                    bits_in_prefix(prefix), <<>>) } })

\* A turn of the loop of flush that pops nothing: the stack stays as it is.
IPPrefixTree_flush_step_Stuck(t, nodes, route, attrs) ==
    [t |-> t, nodes |-> nodes, route |-> route, err |-> "none"]

\* One turn of the loop of IPPrefixTree.flush: an item is popped; a bucket loses
\* its routes that have all attrs and, left empty, has the prefix of the loop
\* variable route deleted; any other item pushes the items of its dict.
IPPrefixTree_flush_step(t, nodes, route, attrs) ==
    LET item == nodes[Len(nodes)]
        rest == SubSeq(nodes, 1, Len(nodes) - 1)
        children == item.ref
        Turn(u, stack, bound, err) ==
            [t |-> u, nodes |-> stack, route |-> bound, err |-> err]
    IN
      IF item.k = StarKey
      THEN
        LET copy == t.heap[children].routes
            kept == RemoveMatching(copy, attrs)
            t1 == Table([t.heap EXCEPT ![children].routes = kept],
                        t.counter - (Len(copy) - Len(kept)))
            bound == IF copy = <<>> THEN route ELSE <<copy[Len(copy)]>>
        IN  IF kept # <<>> THEN Turn(t1, rest, bound, "none")
            ELSE IF bound = <<>> THEN Turn(t1, rest, bound, "UnboundLocalError")
            ELSE Only({ Turn(d.t, rest, bound, d.err) :
                            d \in { IPPrefixTree_delete(t1, bound[1].prefix, {}) } })
      ELSE IF t.heap[children].isList
      THEN Turn(t, rest, route, "AttributeError")
      ELSE Turn(t, rest \o t.heap[children].ents, route, "none")

\* while nodes: the turns of the loop, to the end of the stack or to an
\* exception; route is the loop variable of the last bucket walked (<<>>: not
\* bound yet).
RECURSIVE IPPrefixTree_flush_loop(_, _, _, _)
IPPrefixTree_flush_loop(t, nodes, route, attrs) ==
    IF nodes = <<>> THEN Outcome(t, "none", <<>>)
    ELSE LET turn == IPPrefixTree_flush_step(t, nodes, route, attrs)
         IN  IF turn.err # "none" THEN Outcome(turn.t, turn.err, <<>>)
             ELSE IPPrefixTree_flush_loop(turn.t, turn.nodes, turn.route, attrs)

IPPrefixTree_flush(t, prefix, attrs) ==
    IF prefix # None THEN IPPrefixTree_delete(t, prefix, attrs)
    ELSE LET t1 == IF attrs = {} THEN ClearRoot(t) ELSE t
         IN  IPPrefixTree_flush_loop(t1, t1.heap[1].ents, <<>>, attrs)

\* One turn of the loop of IPRadixTree.flush: an item is popped; a bucket loses
\* its routes that have all attrs and, left empty, has the prefix of the loop
\* variable route deleted; any other item pushes the items of its dict.
IPRadixTree_flush_step(t, nodes, route, attrs) ==
    LET item == nodes[Len(nodes)]
        rest == SubSeq(nodes, 1, Len(nodes) - 1)
        children == item.ref
        Turn(u, stack, bound, err) ==
            [t |-> u, nodes |-> stack, route |-> bound, err |-> err]
    IN
      IF item.k = StarKey
      THEN
        LET copy == t.heap[children].routes
            kept == RemoveMatching(copy, attrs)
            t1 == Table([t.heap EXCEPT ![children].routes = kept],
                        t.counter - (Len(copy) - Len(kept)))
            bound == IF copy = <<>> THEN route ELSE <<copy[Len(copy)]>>
        IN  IF kept # <<>> THEN Turn(t1, rest, bound, "none")
            ELSE IF bound = <<>> THEN Turn(t1, rest, bound, "UnboundLocalError")
            ELSE Only({ Turn(d.t, rest, bound, d.err) :
                            d \in { IPRadixTree_delete(t1, bound[1].prefix, {}) } })
      ELSE IF t.heap[children].isList
      THEN Turn(t, rest, route, "AttributeError")
      ELSE Turn(t, rest \o t.heap[children].ents, route, "none")

\* while nodes: the turns of the loop, to the end of the stack or to an
\* exception; route is the loop variable of the last bucket walked (<<>>: not
\* bound yet).
RECURSIVE IPRadixTree_flush_loop(_, _, _, _)
IPRadixTree_flush_loop(t, nodes, route, attrs) ==
    IF nodes = <<>> THEN Outcome(t, "none", <<>>)
    ELSE LET turn == IPRadixTree_flush_step(t, nodes, route, attrs)
         IN  IF turn.err # "none" THEN Outcome(turn.t, turn.err, <<>>)
             ELSE IPRadixTree_flush_loop(turn.t, turn.nodes, turn.route, attrs)

IPRadixTree_flush(t, prefix, attrs) ==
    IF prefix # None THEN IPRadixTree_delete(t, prefix, attrs)
    ELSE LET t1 == IF attrs = {} THEN ClearRoot(t) ELSE t
         IN  IPRadixTree_flush_loop(t1, t1.heap[1].ents, <<>>, attrs)

(***************************************************************************)
(* Queries.  A query leaves the table alone: its outcome is the exception  *)
(* and the list returned.                                                  *)
(***************************************************************************)
Result(err, val) == [err |-> err, val |-> val]

\* The generator, run to its end: the stack of (key, object) items is popped
\* from the back; a bucket yields its routes that have all attrs, any other
\* item pushes the items of its dict.
RECURSIVE IPPrefixTree_traverse(_, _, _, _)
IPPrefixTree_traverse(h, nodes, attrs, yielded) ==
    IF nodes = <<>> THEN Result("none", yielded)
    ELSE
      LET item == nodes[Len(nodes)]
          rest == SubSeq(nodes, 1, Len(nodes) - 1)
      IN  IF item.k = StarKey
          THEN IPPrefixTree_traverse(h, rest, attrs,
                   yielded \o objs_with_all_attrs(h[item.ref].routes, attrs))
          ELSE IF h[item.ref].isList
          THEN Result("AttributeError", yielded)
          ELSE IPPrefixTree_traverse(h, rest \o h[item.ref].ents, attrs, yielded)

RECURSIVE IPRadixTree_traverse(_, _, _, _)
IPRadixTree_traverse(h, nodes, attrs, yielded) ==
    IF nodes = <<>> THEN Result("none", yielded)
    ELSE
      LET item == nodes[Len(nodes)]
          rest == SubSeq(nodes, 1, Len(nodes) - 1)
      IN  IF item.k = StarKey
          THEN IPRadixTree_traverse(h, rest, attrs,
                   yielded \o objs_with_all_attrs(h[item.ref].routes, attrs))
          ELSE IF h[item.ref].isList
          THEN Result("AttributeError", yielded)
          ELSE IPRadixTree_traverse(h, rest \o h[item.ref].ents, attrs, yielded)

\* ip_network(a) < ip_network(b) for networks of one version: by network
\* address, then by netmask.
NetworkLess(a, b) == a.net < b.net \/ (a.net = b.net /\ a.len < b.len)

\* Stable insertion: the route goes behind the routes that are not greater.
RECURSIVE InsertRoute(_, _)
InsertRoute(sorted, route) ==
    IF sorted = <<>> THEN <<route>>
    ELSE IF NetworkLess(route.prefix, sorted[Len(sorted)].prefix)
    THEN Append(InsertRoute(SubSeq(sorted, 1, Len(sorted) - 1), route),
                sorted[Len(sorted)])
    ELSE Append(sorted, route)

RECURSIVE SortRoutes(_, _)
SortRoutes(routes, i) ==
    IF i = 0 THEN <<>> ELSE InsertRoute(SortRoutes(routes, i - 1), routes[i])

\* sorted(routes, key=ip_network(route.prefix)): comparing networks of
\* different versions raises TypeError.
sort(routes) ==
    IF \E i, j \in 1..Len(routes) : routes[i].prefix.ver # routes[j].prefix.ver
    THEN Result("TypeError", <<>>)
    ELSE Result("none", SortRoutes(routes, Len(routes)))

\* self._sort(self._traverse(pointer, **attrs)): the list is built from the
\* generator first, then sorted.
SortTraverse(tr) == IF tr.err # "none" THEN Result(tr.err, <<>>) ELSE sort(tr.val)

\* pointer.get("*", default)
Bucket(h, pointer, default) ==
    IF HasKey(h[pointer], StarKey) THEN h[Ref(h[pointer], StarKey)].routes
    ELSE default

IPPrefixTree_len(t) == t.counter
IPRadixTree_len(t) == t.counter

RECURSIVE IPPrefixTree_get_walk(_, _, _, _)
IPPrefixTree_get_walk(h, pointer, bits, routes) ==
    IF bits = <<>> \/ ~HasKey(h[pointer], <<Head(bits)>>) THEN routes
    ELSE LET next == Ref(h[pointer], <<Head(bits)>>)
         IN  IPPrefixTree_get_walk(h, next, Tail(bits), Bucket(h, next, routes))

IPPrefixTree_get(t, prefix, attrs) ==
    Result("none", objs_with_all_attrs(
        IPPrefixTree_get_walk(t.heap, 1, bits_in_prefix(prefix),
                              Bucket(t.heap, 1, <<>>)), attrs))

RECURSIVE IPRadixTree_get_walk(_, _, _, _)
IPRadixTree_get_walk(h, nodes, prefix_bits, routes) ==
    IF nodes = <<>> \/ prefix_bits = <<>> THEN routes
    ELSE
      LET item == nodes[Len(nodes)]
          rest == SubSeq(nodes, 1, Len(nodes) - 1)
          node_bits == item.k
          children == item.ref
          common_bits == bits_in_common(node_bits, prefix_bits)
      IN  IF common_bits = node_bits
          THEN IPRadixTree_get_walk(h, new_dict_without_key(StarKey, h[children]),
                   Drop(prefix_bits, Len(common_bits)), Bucket(h, children, routes))
          ELSE IPRadixTree_get_walk(h, rest, prefix_bits, routes)

IPRadixTree_get(t, prefix, attrs) ==
    Result("none", objs_with_all_attrs(
        IPRadixTree_get_walk(t.heap, new_dict_without_key(StarKey, t.heap[1]),
                             bits_in_prefix(prefix), Bucket(t.heap, 1, <<>>)),
        attrs))

IPPrefixTree_contains(t, prefix) == IPPrefixTree_get(t, prefix, {}).val # <<>>
IPRadixTree_contains(t, prefix) == IPRadixTree_get(t, prefix, {}).val # <<>>

\* The walk of IPPrefixTree.show: the node of the prefix, 0 when a bit is
\* missing.
RECURSIVE IPPrefixTree_show_walk(_, _, _)
IPPrefixTree_show_walk(h, pointer, bits) ==
    IF bits = <<>> THEN pointer
    ELSE IF ~HasKey(h[pointer], <<Head(bits)>>) THEN 0
    ELSE IPPrefixTree_show_walk(h, Ref(h[pointer], <<Head(bits)>>), Tail(bits))

IPPrefixTree_show(t, prefix, as_root, attrs) ==
    IF as_root /\ prefix = None THEN Result("TypeError", <<>>)
    ELSE IF prefix = None
    THEN SortTraverse(IPPrefixTree_traverse(t.heap, t.heap[1].ents, attrs, <<>>))
    ELSE
      LET pointer == IPPrefixTree_show_walk(t.heap, 1, bits_in_prefix(prefix))
      IN  IF pointer = 0 THEN Result("none", <<>>)
          ELSE IF ~as_root
          THEN Result("none",
                      objs_with_all_attrs(Bucket(t.heap, pointer, <<>>), attrs))
          ELSE SortTraverse(
                   IPPrefixTree_traverse(t.heap, t.heap[pointer].ents, attrs, <<>>))

\* One turn of the walk of IPRadixTree.show, taken while nodes and
\* prefix_bits are both non-empty: the common bits are taken off the prefix
\* whenever there are any; the pointer moves only along a whole label.
IPRadixTree_show_step(h, pointer, nodes, prefix_bits) ==
    LET item == nodes[Len(nodes)]
        rest == SubSeq(nodes, 1, Len(nodes) - 1)
        node_bits == item.k
        children == item.ref
        common_bits == bits_in_common(node_bits, prefix_bits)
        remaining == Drop(prefix_bits, Len(common_bits))
    IN  IF common_bits = <<>>
        THEN [pointer |-> pointer, nodes |-> rest, prefix_bits |-> prefix_bits]
        ELSE IF common_bits = node_bits
        THEN [pointer |-> children,
              nodes |-> new_dict_without_key(StarKey, h[children]),
              prefix_bits |-> remaining]
        ELSE [pointer |-> pointer, nodes |-> rest, prefix_bits |-> remaining]

\* The walk of IPRadixTree.show.
RECURSIVE IPRadixTree_show_walk(_, _, _, _)
IPRadixTree_show_walk(h, pointer, nodes, prefix_bits) ==
    IF nodes = <<>> \/ prefix_bits = <<>>
    THEN [pointer |-> pointer, prefix_bits |-> prefix_bits]
    ELSE LET turn == IPRadixTree_show_step(h, pointer, nodes, prefix_bits)
         IN  IPRadixTree_show_walk(h, turn.pointer, turn.nodes, turn.prefix_bits)

IPRadixTree_show(t, prefix, as_root, attrs) ==
    IF as_root /\ prefix = None THEN Result("TypeError", <<>>)
    ELSE IF prefix = None
    THEN SortTraverse(IPRadixTree_traverse(t.heap, t.heap[1].ents, attrs, <<>>))
    ELSE
      LET w == IPRadixTree_show_walk(t.heap, 1,
                   new_dict_without_key(StarKey, t.heap[1]), bits_in_prefix(prefix))
      IN  IF w.prefix_bits # <<>> THEN Result("none", <<>>)
          ELSE IF ~as_root
          THEN Result("none",
                      objs_with_all_attrs(Bucket(t.heap, w.pointer, <<>>), attrs))
          ELSE SortTraverse(
                   IPRadixTree_traverse(t.heap, t.heap[w.pointer].ents, attrs, <<>>))

\* The walk of IPPrefixTree.parent and children: pointer[bit] for each bit,
\* 0 when a bit is missing (KeyError); parent keeps the last bucket seen
\* before each step.
RECURSIVE IPPrefixTree_parent_walk(_, _, _, _)
IPPrefixTree_parent_walk(h, pointer, bits, routes) ==
    IF bits = <<>> THEN [pointer |-> pointer, routes |-> routes]
    ELSE IF ~HasKey(h[pointer], <<Head(bits)>>)
    THEN [pointer |-> 0, routes |-> routes]
    ELSE IPPrefixTree_parent_walk(h, Ref(h[pointer], <<Head(bits)>>), Tail(bits),
                                  Bucket(h, pointer, routes))

IPPrefixTree_parent(t, prefix, attrs) ==
    LET w == IPPrefixTree_parent_walk(t.heap, 1, bits_in_prefix(prefix), <<>>)
    IN  IF w.pointer = 0 \/ ~HasKey(t.heap[w.pointer], StarKey)
        THEN Result(RoutingTableValidationError, <<>>)
        ELSE Result("none", objs_with_all_attrs(w.routes, attrs))

\* children without its test for the "*" entry of the node reached.
IPPrefixTree_children_Unchecked(t, prefix, attrs) ==
    LET pointer == IPPrefixTree_show_walk(t.heap, 1, bits_in_prefix(prefix))
    IN  IF pointer = 0
        THEN Result(RoutingTableValidationError, <<>>)
        ELSE SortTraverse(IPPrefixTree_traverse(t.heap,
                 new_dict_without_key(StarKey, t.heap[pointer]), attrs, <<>>))

IPPrefixTree_children(t, prefix, attrs) ==
    LET pointer == IPPrefixTree_show_walk(t.heap, 1, bits_in_prefix(prefix))
    IN  IF pointer = 0 \/ ~HasKey(t.heap[pointer], StarKey)
        THEN Result(RoutingTableValidationError, <<>>)
        ELSE SortTraverse(IPPrefixTree_traverse(t.heap,
                 new_dict_without_key(StarKey, t.heap[pointer]), attrs, <<>>))

\* The walk of IPPrefixTree.match: the buckets of the nodes on the path, as
\* far as the path goes.
RECURSIVE IPPrefixTree_match_walk(_, _, _, _)
IPPrefixTree_match_walk(h, pointer, bits, matches) ==
    IF bits = <<>> \/ ~HasKey(h[pointer], <<Head(bits)>>) THEN matches
    ELSE LET next == Ref(h[pointer], <<Head(bits)>>)
         IN  IPPrefixTree_match_walk(h, next, Tail(bits),
                                     matches \o Bucket(h, next, <<>>))

IPPrefixTree_match(t, prefix, attrs) ==
    sort(objs_with_all_attrs(
        IPPrefixTree_match_walk(t.heap, 1, bits_in_prefix(prefix),
                                Bucket(t.heap, 1, <<>>)), attrs))

\* x & y on non-negative integers.
RECURSIVE BitAnd(_, _)
BitAnd(x, y) ==
    IF x = 0 \/ y = 0 THEN 0
    ELSE 2 * BitAnd(x \div 2, y \div 2) + (IF x % 2 = 1 /\ y % 2 = 1 THEN 1 ELSE 0)
RECURSIVE BitOr(_, _)
BitOr(x, y) ==
    IF x = 0 THEN y
    ELSE IF y = 0 THEN x
    ELSE 2 * BitOr(x \div 2, y \div 2) + (IF x % 2 = 1 \/ y % 2 = 1 THEN 1 ELSE 0)

\* (int(network_address), int(broadcast_address))
int_prefix_boundaries(prefix) ==
    <<prefix.net, prefix.net + Pow2(Width(prefix.ver) - prefix.len) - 1>>

\* address and wildcard are the integers of the two addresses given.
int_wildcard_boundaries(address, wildcard) == <<address, BitOr(address, wildcard)>>

\* The addresses, as integers, that a caller may pass to wcmatch.
AddressInts == 0..(Pow2(W6) - 1)

\* A wcmatch that keeps the routes whose interval lies inside
\* [wc_start, wc_end] (what lines 671-672 would be as a comparison of
\* integers).
WcSelect_ByInterval(routes, wc_start, wc_end) ==
    SelectSeq(routes, LAMBDA route :
        LET b == int_prefix_boundaries(route.prefix)
        IN  wc_start <= b[1] /\ b[2] <= wc_end)

WcSelect(routes, wc_start, wc_end) ==
    SelectSeq(routes, LAMBDA route :
        LET b == int_prefix_boundaries(route.prefix)
        IN  BitAnd(b[1], wc_end) = b[1] /\ BitAnd(wc_start, b[2]) = wc_start)

IPPrefixTree_wcmatch(t, address, wildcard, attrs) ==
    LET wc == int_wildcard_boundaries(address, wildcard)
        tr == IPPrefixTree_traverse(t.heap, t.heap[1].ents, attrs, <<>>)
    IN  IF tr.err # "none" THEN Result(tr.err, <<>>)
        ELSE sort(WcSelect(tr.val, wc[1], wc[2]))

\* The walk of IPRadixTree.parent and children: an item whose label is not
\* wholly the start of the remaining bits is dropped.
RECURSIVE IPRadixTree_parent_walk(_, _, _, _, _)
IPRadixTree_parent_walk(h, pointer, nodes, prefix_bits, routes) ==
    IF nodes = <<>> \/ prefix_bits = <<>>
    THEN [pointer |-> pointer, prefix_bits |-> prefix_bits, routes |-> routes]
    ELSE
      LET item == nodes[Len(nodes)]
          rest == SubSeq(nodes, 1, Len(nodes) - 1)
          node_bits == item.k
          children == item.ref
          common_bits == bits_in_common(node_bits, prefix_bits)
      IN  IF common_bits = node_bits
          THEN IPRadixTree_parent_walk(h, children,
                   new_dict_without_key(StarKey, h[children]),
                   Drop(prefix_bits, Len(common_bits)), Bucket(h, pointer, routes))
          ELSE IPRadixTree_parent_walk(h, pointer, rest, prefix_bits, routes)

IPRadixTree_parent(t, prefix, attrs) ==
    LET w == IPRadixTree_parent_walk(t.heap, 1,
                 new_dict_without_key(StarKey, t.heap[1]), bits_in_prefix(prefix), <<>>)
    IN  IF w.prefix_bits # <<>> \/ ~HasKey(t.heap[w.pointer], StarKey)
        THEN Result(RoutingTableValidationError, <<>>)
        ELSE Result("none", objs_with_all_attrs(w.routes, attrs))

IPRadixTree_children(t, prefix, attrs) ==
    LET w == IPRadixTree_parent_walk(t.heap, 1,
                 new_dict_without_key(StarKey, t.heap[1]), bits_in_prefix(prefix), <<>>)
    IN  IF w.prefix_bits # <<>> \/ ~HasKey(t.heap[w.pointer], StarKey)
        THEN Result(RoutingTableValidationError, <<>>)
        ELSE SortTraverse(IPRadixTree_traverse(t.heap,
                 new_dict_without_key(StarKey, t.heap[w.pointer]), attrs, <<>>))

RECURSIVE IPRadixTree_match_walk(_, _, _, _)
IPRadixTree_match_walk(h, nodes, prefix_bits, matches) ==
    IF nodes = <<>> \/ prefix_bits = <<>> THEN matches
    ELSE
      LET item == nodes[Len(nodes)]
          rest == SubSeq(nodes, 1, Len(nodes) - 1)
          node_bits == item.k
          children == item.ref
          common_bits == bits_in_common(node_bits, prefix_bits)
      IN  IF common_bits = node_bits
          THEN IPRadixTree_match_walk(h, new_dict_without_key(StarKey, h[children]),
                   Drop(prefix_bits, Len(common_bits)),
                   matches \o Bucket(h, children, <<>>))
          ELSE IPRadixTree_match_walk(h, rest, prefix_bits, matches)

IPRadixTree_match(t, prefix, attrs) ==
    sort(objs_with_all_attrs(
        IPRadixTree_match_walk(t.heap, new_dict_without_key(StarKey, t.heap[1]),
                               bits_in_prefix(prefix), Bucket(t.heap, 1, <<>>)), attrs))

IPRadixTree_wcmatch(t, address, wildcard, attrs) ==
    LET wc == int_wildcard_boundaries(address, wildcard)
        tr == IPRadixTree_traverse(t.heap, t.heap[1].ents, attrs, <<>>)
    IN  IF tr.err # "none" THEN Result(tr.err, <<>>)
        ELSE sort(WcSelect(tr.val, wc[1], wc[2]))

(***************************************************************************)
(* What the queries do to the objects: the working dicts and lists of a    *)
(* query are objects of the heap beside those of the tree.                 *)
(***************************************************************************)
\* new_dict_without_key handing back the dict it was given, no copy made.
NewDictObject_Alias(h, unwanted_key, dct) == [h |-> h, ref |-> dct]

\* new_dict_without_key as an object: a dict comprehension, always a new dict.
NewDictObject(h, unwanted_key, dct) ==
    [h |-> Append(h, [NewDict EXCEPT !.ents = new_dict_without_key(unwanted_key, h[dct])]),
     ref |-> Len(h) + 1]

\* nodes.popitem(): the last item leaves the dict.
PopItem(h, nodes) == [h EXCEPT ![nodes].ents = SubSeq(@, 1, Len(@) - 1)]

\* routes.copy(): a new list with the same routes.
ListCopy(h, routes) ==
    [h |-> Append(h, [NewList EXCEPT !.routes = h[routes].routes]), ref |-> Len(h) + 1]

\* matches += routes: the list is extended in place.
ListExtend(h, matches, routes) == [h EXCEPT ![matches].routes = @ \o routes]

\* The heap after the walk of an IPRadixTree query.  partial: the walk of
\* show, which takes the common bits off on any overlap; matches: the list
\* that match extends, 0 for the other queries.
RECURSIVE IPRadixTree_walk_heap(_, _, _, _, _)
IPRadixTree_walk_heap(h, nodes, prefix_bits, partial, matches) ==
    IF h[nodes].ents = <<>> \/ prefix_bits = <<>> THEN h
    ELSE
      LET item == h[nodes].ents[Len(h[nodes].ents)]
          popped == PopItem(h, nodes)
          node_bits == item.k
          children == item.ref
          common_bits == bits_in_common(node_bits, prefix_bits)
          remaining == Drop(prefix_bits, Len(common_bits))
      IN  IF common_bits = node_bits
          THEN LET extended == IF matches # 0 /\ HasKey(popped[children], StarKey)
                               THEN ListExtend(popped, matches,
                                        popped[Ref(popped[children], StarKey)].routes)
                               ELSE popped
                   copy == NewDictObject(extended, StarKey, children)
               IN  IPRadixTree_walk_heap(copy.h, copy.ref, remaining, partial, matches)
          ELSE IPRadixTree_walk_heap(popped, nodes,
                   IF partial THEN remaining ELSE prefix_bits, partial, matches)

\* routes = pointer.get("*", []); matches = routes.copy()
MatchesList(h) ==
    IF HasKey(h[1], StarKey) THEN ListCopy(h, Ref(h[1], StarKey))
    ELSE [h |-> Append(h, NewList), ref |-> Len(h) + 1]

\* The objects after an IPRadixTree query other than match: get, show,
\* parent and children walk alike but for the bits show takes off.
IPRadixTree_query_heap(t, prefix, partial) ==
    LET nodes == NewDictObject(t.heap, StarKey, 1)
    IN  IPRadixTree_walk_heap(nodes.h, nodes.ref, bits_in_prefix(prefix), partial, 0)

\* The objects after IPRadixTree.match.
IPRadixTree_match_heap(t, prefix) ==
    LET matches == MatchesList(t.heap)
        nodes == NewDictObject(matches.h, StarKey, 1)
    IN  IPRadixTree_walk_heap(nodes.h, nodes.ref, bits_in_prefix(prefix),
                              FALSE, matches.ref)

\* The objects after IPPrefixTree.match: the walk reads the nodes and extends
\* matches by each bucket on the path.
RECURSIVE IPPrefixTree_match_walk_heap(_, _, _, _)
IPPrefixTree_match_walk_heap(h, pointer, bits, matches) ==
    IF bits = <<>> \/ ~HasKey(h[pointer], <<Head(bits)>>) THEN h
    ELSE LET next == Ref(h[pointer], <<Head(bits)>>)
         IN  IPPrefixTree_match_walk_heap(
                 IF HasKey(h[next], StarKey)
                 THEN ListExtend(h, matches, h[Ref(h[next], StarKey)].routes)
                 ELSE h,
                 next, Tail(bits), matches)

IPPrefixTree_match_heap(t, prefix) ==
    LET matches == MatchesList(t.heap)
    IN  IPPrefixTree_match_walk_heap(matches.h, 1, bits_in_prefix(prefix), matches.ref)

(***************************************************************************)
(* __iter__: the generator of _traverse, suspended between two yields.     *)
(***************************************************************************)
\* The frame of the generator: the stack nodes, the bucket the for loop is
\* in (0: none) and the index of its list iterator.
Generator(nodes, routes, index) == [nodes |-> nodes, routes |-> routes, index |-> index]

\* nodes = list(root.items()): the body starts at the first next().
traverse_start(h) == Generator(h[1].ents, 0, 1)

\* next(generator): the body runs to its next yield, to its end
\* (StopIteration) or to an exception.  The list iterator reads the bucket
\* as it is now, and children.items() reads the node as it is now.
RECURSIVE traverse_next(_, _)
traverse_next(h, g) ==
    IF g.routes # 0 /\ g.index <= Len(h[g.routes].routes)
    THEN [err |-> "none", val |-> <<h[g.routes].routes[g.index]>>,
          g |-> Generator(g.nodes, g.routes, g.index + 1)]
    ELSE IF g.nodes = <<>>
    THEN [err |-> "StopIteration", val |-> <<>>, g |-> Generator(<<>>, 0, 1)]
    ELSE
      LET item == g.nodes[Len(g.nodes)]
          rest == SubSeq(g.nodes, 1, Len(g.nodes) - 1)
      IN  IF item.k = StarKey
          THEN traverse_next(h, Generator(rest, item.ref, 1))
          ELSE IF h[item.ref].isList
          THEN [err |-> "AttributeError", val |-> <<>>, g |-> Generator(<<>>, 0, 1)]
          ELSE traverse_next(h, Generator(rest \o h[item.ref].ents, 0, 1))

(***************************************************************************)
(* The state: one table of each kind, given the same calls, and the        *)
(* generator of an iteration, or the loop of a flush, that has not come to *)
(* its end.                                                                *)
(***************************************************************************)
VARIABLES prefixTree, radixTree, pending
vars == <<prefixTree, radixTree, pending>>

\* Every Route object reachable from the root of a table.
RECURSIVE RoutesOf(_, _)
RoutesOf(h, order) ==
    IF order = <<>> THEN <<>>
    ELSE h[Head(order)].routes \o RoutesOf(h, Tail(order))
AllRoutes(t) == RoutesOf(t.heap, Reach(t.heap, 1))

\* What a table holds: its Route objects, an empty list counting as one.
Weight(t) ==
    Len(AllRoutes(t))
    + Cardinality({i \in 1..Len(t.heap) :
                      t.heap[i].isList /\ t.heap[i].routes = <<>>})

\* The table a call leaves behind, its garbage collected.
After(t, o) == IF o.t = t THEN t ELSE Table(Collect(o.t.heap), o.t.counter)

\* No generator and no loop: none was started, or the last one has ended.
Idle ==
    [op |-> "none", which |-> "none", g |-> Generator(<<>>, 0, 1),
     T |-> <<>>, yielded |-> <<>>, stale |-> FALSE, mutations |-> 0,
     attrs |-> {}, route |-> <<>>, start |-> NewTable]

Init ==
    /\ prefixTree = NewTable
    /\ radixTree = NewTable
    /\ pending = Idle

\* The calls on an IPPrefixTree alone.
PrefixAdd ==
    /\ Weight(prefixTree) < MaxRoutes
    /\ \E prefix \in Prefixes, attrs \in AttrMaps :
        prefixTree' = After(prefixTree, IPPrefixTree_add(prefixTree, prefix, attrs))
    /\ UNCHANGED <<radixTree, pending>>

PrefixDelete ==
    /\ \E prefix \in Prefixes, attrs \in AttrMaps :
        prefixTree' = After(prefixTree, IPPrefixTree_delete(prefixTree, prefix, attrs))
    /\ UNCHANGED <<radixTree, pending>>

PrefixFlush ==
    /\ \E prefix \in Prefixes \cup {None}, attrs \in AttrMaps :
        prefixTree' = After(prefixTree, IPPrefixTree_flush(prefixTree, prefix, attrs))
    /\ UNCHANGED <<radixTree, pending>>

\* The calls on an IPRadixTree alone.
RadixAdd ==
    /\ Weight(radixTree) < MaxRoutes
    /\ \E prefix \in Prefixes, attrs \in AttrMaps :
        radixTree' = After(radixTree, IPRadixTree_add(radixTree, prefix, attrs))
    /\ UNCHANGED <<prefixTree, pending>>

RadixDelete ==
    /\ \E prefix \in Prefixes, attrs \in AttrMaps :
        radixTree' = After(radixTree, IPRadixTree_delete(radixTree, prefix, attrs))
    /\ UNCHANGED <<prefixTree, pending>>

RadixFlush ==
    /\ \E prefix \in Prefixes \cup {None}, attrs \in AttrMaps :
        radixTree' = After(radixTree, IPRadixTree_flush(radixTree, prefix, attrs))
    /\ UNCHANGED <<prefixTree, pending>>

\* The same calls on a table of each kind.
Add ==
    /\ Weight(prefixTree) < MaxRoutesBoth
    /\ Weight(radixTree) < MaxRoutesBoth
    /\ \E prefix \in Prefixes, attrs \in AttrMaps :
        /\ prefixTree' = After(prefixTree, IPPrefixTree_add(prefixTree, prefix, attrs))
        /\ radixTree' = After(radixTree, IPRadixTree_add(radixTree, prefix, attrs))
    /\ UNCHANGED pending

Delete ==
    /\ \E prefix \in Prefixes, attrs \in AttrMaps :
        /\ prefixTree' = After(prefixTree, IPPrefixTree_delete(prefixTree, prefix, attrs))
        /\ radixTree' = After(radixTree, IPRadixTree_delete(radixTree, prefix, attrs))
    /\ UNCHANGED pending

Flush ==
    /\ \E prefix \in Prefixes \cup {None}, attrs \in AttrMaps :
        /\ prefixTree' = After(prefixTree, IPPrefixTree_flush(prefixTree, prefix, attrs))
        /\ radixTree' = After(radixTree, IPRadixTree_flush(radixTree, prefix, attrs))
    /\ UNCHANGED pending

NextPrefix == PrefixAdd \/ PrefixDelete \/ PrefixFlush
NextRadix == RadixAdd \/ RadixDelete \/ RadixFlush
Next == Add \/ Delete \/ Flush

\* An iteration over one of the two tables, with calls on that table between
\* two next().  The numbers of the objects are kept while the generator
\* holds references to them.
Iterated == IF pending.which = "prefix" THEN prefixTree ELSE radixTree

\* iter(table) and the first next(): T is what the table holds then.
Resume(t, g, fresh) ==
    LET n == traverse_next(t.heap, g)
        base == IF fresh THEN [pending EXCEPT !.T = AllRoutes(t)] ELSE pending
    IN  [base EXCEPT
            !.op = IF n.err = "none" THEN "running"
                   ELSE IF n.err = "StopIteration" THEN "exhausted" ELSE "failed",
            !.g = n.g,
            !.yielded = @ \o n.val,
            !.stale = @ \/ (n.val # <<>> /\ ~InList(n.val[1], AllRoutes(t)))]

IterStart ==
    /\ pending.op = "none"
    /\ \E which \in {"prefix", "radix"} :
          LET t == IF which = "prefix" THEN prefixTree ELSE radixTree
          IN  pending' = [Resume(t, traverse_start(t.heap), TRUE) EXCEPT !.which = which]
    /\ UNCHANGED <<prefixTree, radixTree>>

IterNext ==
    /\ pending.op = "running"
    /\ pending' = Resume(Iterated, pending.g, FALSE)
    /\ UNCHANGED <<prefixTree, radixTree>>

\* A call on the table between two next().
Mutated(o) ==
    /\ o.t # Iterated
    /\ pending' = [pending EXCEPT !.mutations = @ + 1]
    /\ IF pending.which = "prefix"
       THEN prefixTree' = o.t /\ UNCHANGED radixTree
       ELSE radixTree' = o.t /\ UNCHANGED prefixTree

IterAdd ==
    /\ pending.op = "running" /\ pending.mutations < MaxMutations
    /\ \E prefix \in Prefixes, attrs \in AttrMaps :
          Mutated(IF pending.which = "prefix"
                  THEN IPPrefixTree_add(prefixTree, prefix, attrs)
                  ELSE IPRadixTree_add(radixTree, prefix, attrs))

IterDelete ==
    /\ pending.op = "running" /\ pending.mutations < MaxMutations
    /\ \E prefix \in Prefixes, attrs \in AttrMaps :
          Mutated(IF pending.which = "prefix"
                  THEN IPPrefixTree_delete(prefixTree, prefix, attrs)
                  ELSE IPRadixTree_delete(radixTree, prefix, attrs))

IterFlush ==
    /\ pending.op = "running" /\ pending.mutations < MaxMutations
    /\ \E prefix \in Prefixes \cup {None}, attrs \in AttrMaps :
          Mutated(IF pending.which = "prefix"
                  THEN IPPrefixTree_flush(prefixTree, prefix, attrs)
                  ELSE IPRadixTree_flush(radixTree, prefix, attrs))

\* The tables are filled by the same calls before the iteration starts.
IterSetup == pending.op = "none" /\ Add

NextIter == IterSetup \/ IterStart \/ IterNext \/ IterAdd \/ IterDelete \/ IterFlush

\* flush(attrs) turn by turn, on one table that add and delete have filled.
\* The numbers of the objects are kept while the stack of the loop holds
\* references to them.
InitFlush ==
    /\ prefixTree = NewTable
    /\ radixTree = NewTable
    /\ \E which \in {"prefix", "radix"} : pending = [Idle EXCEPT !.which = which]

SetIterated(t) ==
    IF pending.which = "prefix"
    THEN prefixTree' = t /\ UNCHANGED radixTree
    ELSE radixTree' = t /\ UNCHANGED prefixTree

\* flush(attrs) up to its loop: the root is cleared when attrs is empty, and
\* nodes = list(self._root.items()).
FlushStart ==
    /\ pending.op = "none"
    /\ \E attrs \in AttrMaps :
          LET t1 == IF attrs = {} THEN ClearRoot(Iterated) ELSE Iterated
              nodes == t1.heap[1].ents
          IN  IF nodes = <<>>
              THEN /\ SetIterated(After(Iterated, Outcome(t1, "none", <<>>)))
                   /\ UNCHANGED pending
              ELSE /\ SetIterated(t1)
                   /\ pending' = [pending EXCEPT !.op = "flush", !.attrs = attrs,
                                      !.g = Generator(nodes, 0, 1),
                                      !.route = <<>>, !.start = t1]

\* One turn of the loop; the call returns, or raises, after the last one.
FlushStep ==
    /\ pending.op = "flush"
    /\ \E turn \in { IF pending.which = "prefix"
                      THEN IPPrefixTree_flush_step(prefixTree, pending.g.nodes,
                                                   pending.route, pending.attrs)
                      ELSE IPRadixTree_flush_step(radixTree, pending.g.nodes,
                                                  pending.route, pending.attrs) } :
          IF turn.err # "none" \/ turn.nodes = <<>>
          THEN /\ SetIterated(Table(Collect(turn.t.heap), turn.t.counter))
               /\ pending' = [Idle EXCEPT !.which = pending.which]
          ELSE /\ SetIterated(turn.t)
               /\ pending' = [pending EXCEPT !.g = Generator(turn.nodes, 0, 1),
                                             !.route = turn.route]

FlushSetup ==
    /\ pending.op = "none"
    /\ Len(AllRoutes(Iterated)) <= MaxFlushRoutes
    /\ \/ pending.which = "prefix" /\ (PrefixAdd \/ PrefixDelete)
       \/ pending.which = "radix" /\ (RadixAdd \/ RadixDelete)

NextFlush == FlushSetup \/ FlushStart \/ FlushStep

SpecPrefix == Init /\ [][NextPrefix]_vars
SpecRadix == Init /\ [][NextRadix]_vars
Spec == Init /\ [][Next]_vars
SpecIter == Init /\ [][NextIter]_vars
SpecFlush == InitFlush /\ [][NextFlush]_vars
\* A call runs in the thread of its caller: a loop that can take a turn takes
\* it.
SpecFlushFair == SpecFlush /\ WF_vars(FlushStep)

(***************************************************************************)
(* What the claims speak of.                                               *)
(***************************************************************************)
\* The prefixes that have a Route object in the table, and their routes in
\* the order the table holds them.
StoredPrefixes(t) == { AllRoutes(t)[i].prefix : i \in 1..Len(AllRoutes(t)) }
StoredAt(t, prefix) == SelectSeq(AllRoutes(t), LAMBDA r : r.prefix = prefix)

IsPrefixOf(x, y) == Len(x) <= Len(y) /\ SubSeq(y, 1, Len(x)) = x
\* p covers q: same address family, and the bits of p lead the bits of q.
Covers(p, q) == p.ver = q.ver /\ IsPrefixOf(bits_in_prefix(p), bits_in_prefix(q))
\* The full-length addresses (host prefixes).
Addresses == { p \in Prefixes : p.len = Width(p.ver) }

\* The stored prefix that is the longest among those covering q.
LongestCovering(t, q) ==
    LET cover == { p \in StoredPrefixes(t) : Covers(p, q) }
    IN  { p \in cover : \A o \in cover : o.len <= p.len }

\* C1 (as stated): get(A) for a full-length address A returns exactly the
\* bucket of the longest stored prefix that covers A, and [] when no stored
\* prefix covers A, in both tries.
LongestMatchOf(t, a) ==
    IF LongestCovering(t, a) = {} THEN <<>>
    ELSE StoredAt(t, CHOOSE p \in LongestCovering(t, a) : TRUE)

C1_LongestPrefixMatch ==
    \A a \in Addresses :
        /\ IPPrefixTree_get(prefixTree, a, {})
               = Result("none", LongestMatchOf(prefixTree, a))
        /\ IPRadixTree_get(radixTree, a, {})
               = Result("none", LongestMatchOf(radixTree, a))

\* C2 (as stated): a delete(prefix) without attrs that succeeds removes the
\* routes stored at prefix and nothing else: show(prefix) is empty afterwards,
\* show(q) of every other stored prefix q is what it was, and show() is the
\* former show() without the routes of prefix, in both tries.
WithoutPrefix(routes, prefix) == SelectSeq(routes, LAMBDA r : r.prefix # prefix)

C2_PrefixDeleteFrame(t, p) ==
    LET o == IPPrefixTree_delete(t, p, {})
    IN  o.err = "none" =>
          /\ IPPrefixTree_show(o.t, p, FALSE, {}) = Result("none", <<>>)
          /\ \A q \in StoredPrefixes(t) \ {p} :
                IPPrefixTree_show(o.t, q, FALSE, {}) = Result("none", StoredAt(t, q))
          /\ LET before == IPPrefixTree_show(t, None, FALSE, {})
             IN  IPPrefixTree_show(o.t, None, FALSE, {})
                    = Result(before.err, WithoutPrefix(before.val, p))

C2_RadixDeleteFrame(t, p) ==
    LET o == IPRadixTree_delete(t, p, {})
    IN  o.err = "none" =>
          /\ IPRadixTree_show(o.t, p, FALSE, {}) = Result("none", <<>>)
          /\ \A q \in StoredPrefixes(t) \ {p} :
                IPRadixTree_show(o.t, q, FALSE, {}) = Result("none", StoredAt(t, q))
          /\ LET before == IPRadixTree_show(t, None, FALSE, {})
             IN  IPRadixTree_show(o.t, None, FALSE, {})
                    = Result(before.err, WithoutPrefix(before.val, p))

C2_DeleteRemovesOnlyThePrefix ==
    \A p \in Prefixes :
        /\ C2_PrefixDeleteFrame(prefixTree, p)
        /\ C2_RadixDeleteFrame(radixTree, p)

\* C3 (as stated): len(table) is the number of Route objects held in the
\* buckets reachable from the root, which is the number of routes the
\* iteration of the table yields, in both tries.
C3_CounterCountsRoutes ==
    /\ IPPrefixTree_traverse(prefixTree.heap, prefixTree.heap[1].ents, {}, <<>>).err
          = "none"
    /\ Len(IPPrefixTree_traverse(prefixTree.heap, prefixTree.heap[1].ents,
                                 {}, <<>>).val) = IPPrefixTree_len(prefixTree)
    /\ IPRadixTree_traverse(radixTree.heap, radixTree.heap[1].ents, {}, <<>>).err
          = "none"
    /\ Len(IPRadixTree_traverse(radixTree.heap, radixTree.heap[1].ents,
                                {}, <<>>).val) = IPRadixTree_len(radixTree)

\* The path of every object: the labels from the root, concatenated.
RECURSIVE PathsFrom(_, _, _)
RECURSIVE PathsOfItems(_, _, _, _)
PathsFrom(h, id, path) ==
    <<[id |-> id, path |-> path]>> \o PathsOfItems(h, h[id].ents, path, 1)
PathsOfItems(h, ents, path, i) ==
    IF i > Len(ents) THEN <<>>
    ELSE PathsFrom(h, ents[i].ref, path \o ents[i].k)
         \o PathsOfItems(h, ents, path, i + 1)

IsBits(k) == \A i \in 1..Len(k) : k[i] \in {0, 1}

\* C4 (as stated): every Route reachable from the root sits in the "*" entry
\* of the node whose path is the bit-string of its prefix; a bucket is never
\* the target of an edge, and an edge label holds nothing but bits.
PathInvariant(t) ==
    LET paths == PathsFrom(t.heap, 1, <<>>)
    IN  /\ \A i \in 1..Len(t.heap) : \A j \in 1..Len(t.heap[i].ents) :
              LET e == t.heap[i].ents[j]
              IN  IF e.k = StarKey THEN t.heap[e.ref].isList
                  ELSE IsBits(e.k) /\ ~t.heap[e.ref].isList
        /\ \A n \in 1..Len(paths) :
              \A r \in 1..Len(t.heap[paths[n].id].routes) :
                  paths[n].path
                     = bits_in_prefix(t.heap[paths[n].id].routes[r].prefix) \o StarKey

C4_PathInvariant == PathInvariant(prefixTree) /\ PathInvariant(radixTree)

\* The dict objects of a table (the nodes), the root being object 1.
Nodes(t) == { i \in 1..Len(t.heap) : ~t.heap[i].isList }
ChildEdges(t, i) ==
    { j \in 1..Len(t.heap[i].ents) : t.heap[i].ents[j].k # StarKey }

C6_RadixSiblingLabels ==
    \A i \in Nodes(radixTree) :
        LET ents == radixTree.heap[i].ents
        IN  /\ \A j \in ChildEdges(radixTree, i) :
                  Len(ents[j].k) >= 1 /\ IsBits(ents[j].k)
            /\ \A j, k \in ChildEdges(radixTree, i) :
                  j # k => ents[j].k[1] # ents[k].k[1]

\* The orders in which the elements of a finite set can be taken.
Orders(S) ==
    { f \in [1..Cardinality(S) -> S] : \A i, j \in DOMAIN f : i # j => f[i] # f[j] }

RECURSIVE PrefixAddAll(_, _, _)
PrefixAddAll(t, routes, i) ==
    IF i > Len(routes) THEN t
    ELSE LET o == IPPrefixTree_add(t, routes[i].prefix, routes[i].attrs)
         IN  PrefixAddAll(After(t, o), routes, i + 1)
RECURSIVE RadixAddAll(_, _, _)
RadixAddAll(t, routes, i) ==
    IF i > Len(routes) THEN t
    ELSE LET o == IPRadixTree_add(t, routes[i].prefix, routes[i].attrs)
         IN  RadixAddAll(After(t, o), routes, i + 1)

\* The table is what adds alone have built: adding its routes to an empty
\* table, in some order, gives it.
RouteSet(t) == { AllRoutes(t)[i] : i \in 1..Len(AllRoutes(t)) }
PrefixBuiltByAdds(t) ==
    \E routes \in Orders(RouteSet(t)) : PrefixAddAll(NewTable, routes, 1) = t
RadixBuiltByAdds(t) ==
    \E routes \in Orders(RouteSet(t)) : RadixAddAll(NewTable, routes, 1) = t

\* delete(prefix) for each prefix of the order in turn; the first error stops.
RECURSIVE PrefixDeleteAll(_, _, _)
PrefixDeleteAll(t, order, i) ==
    IF i > Len(order) THEN Outcome(t, "none", <<>>)
    ELSE LET o == IPPrefixTree_delete(t, order[i], {})
         IN  IF o.err # "none" THEN o
             ELSE PrefixDeleteAll(After(t, o), order, i + 1)
RECURSIVE RadixDeleteAll(_, _, _)
RadixDeleteAll(t, order, i) ==
    IF i > Len(order) THEN Outcome(t, "none", <<>>)
    ELSE LET o == IPRadixTree_delete(t, order[i], {})
         IN  IF o.err # "none" THEN o
             ELSE RadixDeleteAll(After(t, o), order, i + 1)

\* C7 (as stated): after the routes of a set have been added, deleting
\* every stored prefix, in any order, leaves len(table) = 0 and the root an
\* empty dict, in both tries.
C7_DeleteUndoesAdd ==
    /\ PrefixBuiltByAdds(prefixTree) =>
          \A order \in Orders(StoredPrefixes(prefixTree)) :
              PrefixDeleteAll(prefixTree, order, 1) = Outcome(NewTable, "none", <<>>)
    /\ RadixBuiltByAdds(radixTree) =>
          \A order \in Orders(StoredPrefixes(radixTree)) :
              RadixDeleteAll(radixTree, order, 1) = Outcome(NewTable, "none", <<>>)

\* C9 (as stated): show(prefix) without as_root returns the routes, of the
\* bucket stored at exactly that prefix, that have all attrs, and [] when no
\* route is stored at exactly that prefix, in both tries.
C9_ShowIsExactMatch ==
    \A p \in Prefixes, attrs \in AttrMaps :
        /\ IPPrefixTree_show(prefixTree, p, FALSE, attrs)
              = Result("none", objs_with_all_attrs(StoredAt(prefixTree, p), attrs))
        /\ IPRadixTree_show(radixTree, p, FALSE, attrs)
              = Result("none", objs_with_all_attrs(StoredAt(radixTree, p), attrs))

\* The stored routes whose bit-string starts with the bit-string of p.
CoveredBy(t, p) ==
    SelectSeq(AllRoutes(t),
              LAMBDA r : IsPrefixOf(bits_in_prefix(p), bits_in_prefix(r.prefix)))

\* Two lists hold the same routes, each as often in one as in the other.
Count(x, r) == Cardinality({ i \in 1..Len(x) : x[i] = r })
SameRoutes(x, y) ==
    /\ Len(x) = Len(y)
    /\ \A i \in 1..Len(x) : Count(x, x[i]) = Count(y, x[i])

\* C10 (as stated): show(prefix, as_root=True) returns exactly the stored
\* routes, having all attrs, whose bit-string starts with the bit-string of
\* prefix, whether or not prefix itself is stored, in both tries.
C10_ShowAsRootIsTheSubtree ==
    \A p \in Prefixes, attrs \in AttrMaps :
        /\ LET s == IPPrefixTree_show(prefixTree, p, TRUE, attrs)
           IN  /\ s.err = "none"
               /\ SameRoutes(s.val, objs_with_all_attrs(CoveredBy(prefixTree, p), attrs))
        /\ LET s == IPRadixTree_show(radixTree, p, TRUE, attrs)
           IN  /\ s.err = "none"
               /\ SameRoutes(s.val, objs_with_all_attrs(CoveredBy(radixTree, p), attrs))

\* Two outcomes of one query: the same error, or the same routes; in the same
\* order where the list is a sorted one.
SameOutcome(x, y, ordered) ==
    /\ x.err = y.err
    /\ x.err = "none" => IF ordered THEN x.val = y.val ELSE SameRoutes(x.val, y.val)

\* C8 (as stated): the two tries, given the same calls, answer every query
\* alike: get, show, parent, children, match, wcmatch, contains and len.
C8_TriesAreEquivalent ==
    /\ IPPrefixTree_len(prefixTree) = IPRadixTree_len(radixTree)
    /\ \A attrs \in AttrMaps :
          SameOutcome(IPPrefixTree_show(prefixTree, None, FALSE, attrs),
                      IPRadixTree_show(radixTree, None, FALSE, attrs), TRUE)
    /\ \A p \in Prefixes :
          /\ IPPrefixTree_contains(prefixTree, p) = IPRadixTree_contains(radixTree, p)
          /\ \A attrs \in AttrMaps :
                /\ SameOutcome(IPPrefixTree_get(prefixTree, p, attrs),
                               IPRadixTree_get(radixTree, p, attrs), FALSE)
                /\ SameOutcome(IPPrefixTree_show(prefixTree, p, FALSE, attrs),
                               IPRadixTree_show(radixTree, p, FALSE, attrs), FALSE)
                /\ SameOutcome(IPPrefixTree_show(prefixTree, p, TRUE, attrs),
                               IPRadixTree_show(radixTree, p, TRUE, attrs), TRUE)
                /\ SameOutcome(IPPrefixTree_parent(prefixTree, p, attrs),
                               IPRadixTree_parent(radixTree, p, attrs), FALSE)
                /\ SameOutcome(IPPrefixTree_children(prefixTree, p, attrs),
                               IPRadixTree_children(radixTree, p, attrs), TRUE)
                /\ SameOutcome(IPPrefixTree_match(prefixTree, p, attrs),
                               IPRadixTree_match(radixTree, p, attrs), TRUE)
    /\ \A address, wildcard \in AddressInts, attrs \in AttrMaps :
          SameOutcome(IPPrefixTree_wcmatch(prefixTree, address, wildcard, attrs),
                      IPRadixTree_wcmatch(radixTree, address, wildcard, attrs), TRUE)

\* The prefixes of a list of routes, in the order of the list.
PrefixesOf(routes) == [i \in 1..Len(routes) |-> routes[i].prefix]

\* C11 (as stated): the routes of a set, added to an empty table in any
\* order: show() holds exactly those routes, each once, len is their number,
\* and the prefixes show() lists are the same list for every order, in both
\* tries.
C11_PrefixRoundTrip(t) ==
    \A routes \in Orders(RouteSet(t)) :
        LET u == PrefixAddAll(NewTable, routes, 1)
            s == IPPrefixTree_show(u, None, FALSE, {})
        IN  /\ s.err = "none"
            /\ SameRoutes(s.val, routes)
            /\ IPPrefixTree_len(u) = Len(routes)
            /\ PrefixesOf(s.val)
                  = PrefixesOf(IPPrefixTree_show(t, None, FALSE, {}).val)

C11_RadixRoundTrip(t) ==
    \A routes \in Orders(RouteSet(t)) :
        LET u == RadixAddAll(NewTable, routes, 1)
            s == IPRadixTree_show(u, None, FALSE, {})
        IN  /\ s.err = "none"
            /\ SameRoutes(s.val, routes)
            /\ IPRadixTree_len(u) = Len(routes)
            /\ PrefixesOf(s.val)
                  = PrefixesOf(IPRadixTree_show(t, None, FALSE, {}).val)

C11_AddRoundTrip ==
    /\ PrefixBuiltByAdds(prefixTree) => C11_PrefixRoundTrip(prefixTree)
    /\ RadixBuiltByAdds(radixTree) => C11_RadixRoundTrip(radixTree)

\* C12 (as stated): add(p, a) of a route that is stored leaves tree and
\* counter as they are; otherwise the bucket of p is what it was with the one
\* new Route behind it, the counter is one more, and the routes of the other
\* prefixes stay, in both tries.
C12_AddedTo(t, u, p, attrs) ==
    IF InList(Route(p, attrs), AllRoutes(t))
    THEN u = t
    ELSE /\ u.counter = t.counter + 1
         /\ StoredAt(u, p) = Append(StoredAt(t, p), Route(p, attrs))
         /\ \A q \in StoredPrefixes(t) \ {p} : StoredAt(u, q) = StoredAt(t, q)

C12_AddIsIdempotent ==
    \A p \in Prefixes, attrs \in AttrMaps :
        /\ LET o == IPPrefixTree_add(prefixTree, p, attrs)
           IN  o.err = "none" /\ C12_AddedTo(prefixTree, After(prefixTree, o), p, attrs)
        /\ LET o == IPRadixTree_add(radixTree, p, attrs)
           IN  o.err = "none" /\ C12_AddedTo(radixTree, After(radixTree, o), p, attrs)

\* The first and the last address of a prefix, as integers.
NetworkId(p) == p.net
Broadcast(p) == p.net + Pow2(Width(p.ver) - p.len) - 1

\* The stored routes, having all attrs, whose interval lies inside [A, A|W].
InsideRange(t, A, W, attrs) ==
    SelectSeq(objs_with_all_attrs(AllRoutes(t), attrs), LAMBDA r :
        A <= NetworkId(r.prefix) /\ Broadcast(r.prefix) <= BitOr(A, W))

UnderMask(t, A, W, attrs) ==
    SelectSeq(objs_with_all_attrs(AllRoutes(t), attrs), LAMBDA r :
        /\ BitAnd(NetworkId(r.prefix), BitOr(A, W)) = NetworkId(r.prefix)
        /\ BitAnd(A, Broadcast(r.prefix)) = A)

OneFamily(routes) ==
    \A i, j \in 1..Len(routes) : routes[i].prefix.ver = routes[j].prefix.ver

\* C13 (amended): wcmatch(A, W) returns exactly the stored routes, having all
\* attrs, with (network_id & (A|W)) = network_id and (A & broadcast) = A,
\* a covering route such as the default route among them, whenever the
\* routes sit where their prefixes say and those selected are of one family.
C13_WcmatchOf(t, s, A, W, attrs) ==
    (PathInvariant(t) /\ OneFamily(UnderMask(t, A, W, attrs)))
        => s.err = "none" /\ SameRoutes(s.val, UnderMask(t, A, W, attrs))

Keeping(routes, attrs) == SelectSeq(routes, LAMBDA r : ~has_all_attrs(r, attrs))
NoEmptyBucket(t) ==
    \A i \in 1..Len(t.heap) : t.heap[i].isList => t.heap[i].routes # <<>>

\* What C14 says of a table t and the table u after flush(attrs).
C14_Flushed(t, u, attrs) ==
    /\ SameRoutes(AllRoutes(u), Keeping(AllRoutes(t), attrs))
    /\ u.counter = t.counter - (Len(AllRoutes(t)) - Len(Keeping(AllRoutes(t), attrs)))
    /\ NoEmptyBucket(u)

\* C14 (as stated): flush(attrs) without prefix completes without raising,
\* removes from every bucket exactly the routes that have all attrs, keeps
\* every other route retrievable by show(its prefix), takes the number of
\* routes removed off the counter and prunes the emptied buckets, in both
\* tries.
C14_FlushByAttrs ==
    \A attrs \in AttrMaps \ {{}} :
        /\ LET o == IPPrefixTree_flush(prefixTree, None, attrs)
               u == After(prefixTree, o)
           IN  /\ o.err = "none"
               /\ C14_Flushed(prefixTree, u, attrs)
               /\ \A q \in StoredPrefixes(u) :
                     IPPrefixTree_show(u, q, FALSE, {})
                        = Result("none", Keeping(StoredAt(prefixTree, q), attrs))
        /\ LET o == IPRadixTree_flush(radixTree, None, attrs)
               u == After(radixTree, o)
           IN  /\ o.err = "none"
               /\ C14_Flushed(radixTree, u, attrs)
               /\ \A q \in StoredPrefixes(u) :
                     IPRadixTree_show(u, q, FALSE, {})
                        = Result("none", Keeping(StoredAt(radixTree, q), attrs))

\* The stored routes whose bit-string is the start of the bit-string of p.
OnPathTo(t, p) ==
    SelectSeq(AllRoutes(t),
              LAMBDA r : IsPrefixOf(bits_in_prefix(r.prefix), bits_in_prefix(p)))

\* C15 (as stated): match(P) returns exactly the stored routes, having all
\* attrs, whose bit-string is the start of the bit-string of P, in both tries.
C15_MatchIsThePath ==
    \A p \in Prefixes, attrs \in AttrMaps :
        /\ LET s == IPPrefixTree_match(prefixTree, p, attrs)
           IN  /\ s.err = "none"
               /\ SameRoutes(s.val, objs_with_all_attrs(OnPathTo(prefixTree, p), attrs))
        /\ LET s == IPRadixTree_match(radixTree, p, attrs)
           IN  /\ s.err = "none"
               /\ SameRoutes(s.val, objs_with_all_attrs(OnPathTo(radixTree, p), attrs))

\* The bit-strings at which routes are stored, those of them that are strict
\* ancestors of p, and the bucket of a bit-string in stored order.
StoredBits(t) == { bits_in_prefix(q) : q \in StoredPrefixes(t) }
StrictAncestors(t, p) ==
    { b \in StoredBits(t) : /\ Len(b) < Len(bits_in_prefix(p))
                            /\ IsPrefixOf(b, bits_in_prefix(p)) }
BucketAt(t, b) ==
    SelectSeq(AllRoutes(t), LAMBDA r : bits_in_prefix(r.prefix) = b)
ParentBucket(t, p) ==
    IF StrictAncestors(t, p) = {} THEN <<>>
    ELSE BucketAt(t, CHOOSE b \in StrictAncestors(t, p) :
                         \A c \in StrictAncestors(t, p) : Len(c) <= Len(b))

\* C16 (as stated): when a route is stored at exactly P, parent(P) returns the
\* bucket, filtered by attrs, of the longest stored strict ancestor of P, and
\* [] when there is none; it never returns the bucket of P itself; both tries.
C16_ParentIsTheLongestAncestor ==
    \A p \in Prefixes, attrs \in AttrMaps :
        /\ StoredAt(prefixTree, p) # <<>> =>
               LET s == IPPrefixTree_parent(prefixTree, p, attrs)
               IN  /\ s.err = "none"
                   /\ s.val = objs_with_all_attrs(ParentBucket(prefixTree, p), attrs)
        /\ StoredAt(radixTree, p) # <<>> =>
               LET s == IPRadixTree_parent(radixTree, p, attrs)
               IN  /\ s.err = "none"
                   /\ s.val = objs_with_all_attrs(ParentBucket(radixTree, p), attrs)

\* The stored routes whose bit-string is longer than that of p and starts
\* with it.
StrictlyBelow(t, p) ==
    SelectSeq(CoveredBy(t, p),
              LAMBDA r : Len(bits_in_prefix(r.prefix)) > Len(bits_in_prefix(p)))

\* C17 (as stated): when a route is stored at exactly P, children(P) returns
\* exactly the stored routes, having all attrs, whose bit-string strictly
\* extends that of P, and none of the routes stored at P, in both tries.
C17_ChildrenAreTheStrictSubtree ==
    \A p \in Prefixes, attrs \in AttrMaps :
        /\ StoredAt(prefixTree, p) # <<>> =>
               LET s == IPPrefixTree_children(prefixTree, p, attrs)
               IN  /\ s.err = "none"
                   /\ SameRoutes(s.val,
                          objs_with_all_attrs(StrictlyBelow(prefixTree, p), attrs))
        /\ StoredAt(radixTree, p) # <<>> =>
               LET s == IPRadixTree_children(radixTree, p, attrs)
               IN  /\ s.err = "none"
                   /\ SameRoutes(s.val,
                          objs_with_all_attrs(StrictlyBelow(radixTree, p), attrs))

\* The dicts and their keys, the routes of the buckets left out.
Shape(t) ==
    [i \in 1..Len(t.heap) |-> [isList |-> t.heap[i].isList, ents |-> t.heap[i].ents]]

\* What C18 says of a table t and the table u after delete(p, attrs) has
\* returned: b is the bit-string of p, and the bucket is the list at b.
C18_Deleted(t, u, p, attrs) ==
    LET b == bits_in_prefix(p)
        kept == Keeping(BucketAt(t, b), attrs)
    IN  /\ BucketAt(u, b) = kept
        /\ \A c \in StoredBits(t) \ {b} : BucketAt(u, c) = BucketAt(t, c)
        /\ StoredBits(u) \subseteq StoredBits(t)
        /\ u.counter = t.counter - (Len(BucketAt(t, b)) - Len(kept))
        /\ kept # <<>> => Shape(u) = Shape(t)

\* C18 (as stated): delete(prefix, attrs) with non-empty attrs that a route at
\* prefix satisfies removes exactly the routes of that bucket that satisfy
\* attrs, keeps the others of the bucket in their order, every other route
\* staying retrievable, takes the number removed off the counter, and leaves
\* the structure alone when the bucket stays non-empty; in both tries.
C18_DeleteByAttrs ==
    \A p \in Prefixes, attrs \in AttrMaps \ {{}} :
        /\ objs_with_all_attrs(StoredAt(prefixTree, p), attrs) # <<>> =>
               LET o == IPPrefixTree_delete(prefixTree, p, attrs)
                   u == After(prefixTree, o)
               IN  /\ o.err = "none"
                   /\ C18_Deleted(prefixTree, u, p, attrs)
                   /\ \A q \in StoredPrefixes(u) :
                         IPPrefixTree_show(u, q, FALSE, {})
                            = Result("none", BucketAt(u, bits_in_prefix(q)))
        /\ objs_with_all_attrs(StoredAt(radixTree, p), attrs) # <<>> =>
               LET o == IPRadixTree_delete(radixTree, p, attrs)
                   u == After(radixTree, o)
               IN  /\ o.err = "none"
                   /\ C18_Deleted(radixTree, u, p, attrs)
                   /\ \A q \in StoredPrefixes(u) :
                         IPRadixTree_show(u, q, FALSE, {})
                            = Result("none", BucketAt(u, bits_in_prefix(q)))

\* The nodes whose path is the bit-string of p and that hold a "*" entry, and
\* the routes of that entry: the route bucket at exactly p, if there is one.
BucketNodes(t, p) ==
    LET paths == PathsFrom(t.heap, 1, <<>>)
    IN  { paths[n].id : n \in { m \in 1..Len(paths) :
              /\ paths[m].path = bits_in_prefix(p)
              /\ ~t.heap[paths[m].id].isList
              /\ HasKey(t.heap[paths[m].id], StarKey) } }
HasBucket(t, p) == BucketNodes(t, p) # {}
BucketOf(t, p) ==
    LET node == CHOOSE i \in BucketNodes(t, p) : TRUE
    IN  t.heap[Ref(t.heap[node], StarKey)].routes

C19_DeleteRaises(t, p, attrs) ==
    \/ ~HasBucket(t, p)
    \/ attrs # {} /\ objs_with_all_attrs(BucketOf(t, p), attrs) = <<>>

NodesAt(t, p) ==
    LET paths == PathsFrom(t.heap, 1, <<>>)
    IN  { paths[n].id : n \in { m \in 1..Len(paths) :
              /\ paths[m].path = bits_in_prefix(p)
              /\ ~t.heap[paths[m].id].isList } }

C20_DeleteWithoutMatchRaises ==
    \A p \in Prefixes, attrs \in AttrMaps \ {{}} :
        /\ (/\ HasBucket(prefixTree, p)
            /\ objs_with_all_attrs(BucketOf(prefixTree, p), attrs) = <<>>) =>
               LET o == IPPrefixTree_delete(prefixTree, p, attrs)
               IN  /\ o.err = RoutingTableValidationError
                   /\ o.t.heap = prefixTree.heap
                   /\ o.t.counter = prefixTree.counter
        /\ (/\ HasBucket(radixTree, p)
            /\ objs_with_all_attrs(BucketOf(radixTree, p), attrs) = <<>>) =>
               LET o == IPRadixTree_delete(radixTree, p, attrs)
               IN  /\ o.err = RoutingTableValidationError
                   /\ o.t.heap = radixTree.heap
                   /\ o.t.counter = radixTree.counter

\* A state in which C20's case happens: in each trie some bucket holds routes
\* none of which has the attrs, and delete with those attrs raises.
C20_Witness ==
    \E p \in Prefixes, q \in Prefixes, attrs \in AttrMaps \ {{}} :
        /\ HasBucket(prefixTree, p) /\ BucketOf(prefixTree, p) # <<>>
        /\ objs_with_all_attrs(BucketOf(prefixTree, p), attrs) = <<>>
        /\ IPPrefixTree_delete(prefixTree, p, attrs).err = RoutingTableValidationError
        /\ HasBucket(radixTree, q) /\ Len(BucketOf(radixTree, q)) > 0
        /\ objs_with_all_attrs(BucketOf(radixTree, q), attrs) = <<>>
        /\ IPRadixTree_delete(radixTree, q, attrs).err = RoutingTableValidationError
        /\ Len(AllRoutes(radixTree)) > 1

\* A query returned a list, and the empty list when the table holds no route.
ReturnsList(t, s) ==
    /\ s.err = "none"
    /\ AllRoutes(t) = <<>> => s.val = <<>>

\* C21 (as stated): in every state that add, delete and flush reach, get,
\* match, wcmatch, show() and show(prefix) return a list and never fail, the
\* list being [] on a table without routes; in both tries.
C21_QueriesNeverFail ==
    /\ ReturnsList(prefixTree, IPPrefixTree_show(prefixTree, None, FALSE, {}))
    /\ ReturnsList(radixTree, IPRadixTree_show(radixTree, None, FALSE, {}))
    /\ \A p \in Prefixes, attrs \in AttrMaps :
          /\ ReturnsList(prefixTree, IPPrefixTree_get(prefixTree, p, attrs))
          /\ ReturnsList(prefixTree, IPPrefixTree_match(prefixTree, p, attrs))
          /\ ReturnsList(prefixTree, IPPrefixTree_show(prefixTree, p, FALSE, attrs))
          /\ ReturnsList(radixTree, IPRadixTree_get(radixTree, p, attrs))
          /\ ReturnsList(radixTree, IPRadixTree_match(radixTree, p, attrs))
          /\ ReturnsList(radixTree, IPRadixTree_show(radixTree, p, FALSE, attrs))
    /\ \A A, W \in AddressInts, attrs \in AttrMaps :
          /\ ReturnsList(prefixTree, IPPrefixTree_wcmatch(prefixTree, A, W, attrs))
          /\ ReturnsList(radixTree, IPRadixTree_wcmatch(radixTree, A, W, attrs))

\* The tree and the counter are what they were, the working objects of the
\* query dropped.
Untouched(t, h) == Table(Collect(h), t.counter) = t

\* C22: the queries leave the structure and the counter as they were, whether
\* they return or fail: the radix walks pop items of copies of the child
\* maps only, and match extends a copy of the root bucket only.
C22_QueriesAreReadOnly ==
    \A p \in Prefixes :
        /\ \A partial \in BOOLEAN :
              Untouched(radixTree, IPRadixTree_query_heap(radixTree, p, partial))
        /\ Untouched(radixTree, IPRadixTree_match_heap(radixTree, p))
        /\ Untouched(prefixTree, IPPrefixTree_match_heap(prefixTree, p))

\* A state in which C22's case happens: a radix walk pops an item of the copy
\* of the root and descends into a second copy, and a match in each trie
\* extends its list by a bucket below a root that holds a bucket itself.
C22_Witness ==
    \E p \in Prefixes :
        LET h == IPRadixTree_query_heap(radixTree, p, FALSE)
            n == Len(radixTree.heap)
        IN  /\ Len(h) >= n + 2
            /\ Len(h[n + 1].ents) < Len(new_dict_without_key(StarKey, radixTree.heap[1]))
            /\ HasKey(radixTree.heap[1], StarKey)
            /\ Len(IPRadixTree_match_heap(radixTree, p)[n + 1].routes)
                  > Len(Bucket(radixTree.heap, 1, <<>>))
            /\ HasKey(prefixTree.heap[1], StarKey)
            /\ Len(IPPrefixTree_match_heap(prefixTree, p)[Len(prefixTree.heap) + 1].routes)
                  > Len(Bucket(prefixTree.heap, 1, <<>>))

\* xs holds no route more often than ys does.
WithinRoutes(xs, ys) == \A i \in 1..Len(xs) : Count(xs, xs[i]) <= Count(ys, xs[i])

\* C23 (as stated): an iteration started in table state T, with add, delete
\* or flush calls between its next(), comes to its end having yielded
\* exactly the routes of T, or fails; it yields no route that the table
\* does not hold when it is yielded, and no route that T did not hold.
C23_SnapshotIteration ==
    /\ ~pending.stale
    /\ WithinRoutes(pending.yielded, pending.T)
    /\ pending.op = "exhausted" => SameRoutes(pending.yielded, pending.T)

\* The order of the claim on prefixes: by version, network id and length.
PrefixBefore(p, q) ==
    \/ p.ver < q.ver
    \/ p.ver = q.ver /\ p.net < q.net
    \/ p.ver = q.ver /\ p.net = q.net /\ p.len < q.len

\* The place of a route in the bucket of its prefix.
PlaceInBucket(t, r) ==
    CHOOSE i \in 1..Len(StoredAt(t, r.prefix)) : StoredAt(t, r.prefix)[i] = r

\* A query returned a list in the order of the claim, routes of one prefix in
\* the order of their bucket.
ReturnsSorted(t, s) ==
    /\ s.err = "none"
    /\ \A i, j \in 1..Len(s.val) : i < j =>
          \/ PrefixBefore(s.val[i].prefix, s.val[j].prefix)
          \/ /\ s.val[i].prefix = s.val[j].prefix
             /\ InList(s.val[i], AllRoutes(t)) /\ InList(s.val[j], AllRoutes(t))
             /\ PlaceInBucket(t, s.val[i]) < PlaceInBucket(t, s.val[j])

\* C24 (as stated): show(), show(prefix, as_root=True), children, match and
\* wcmatch return their routes in ascending order of (version, network id,
\* length), also when the table holds routes of both families, and routes of
\* one prefix in the order of their bucket; in both tries.
C24_ResultsAreSorted ==
    /\ ReturnsSorted(prefixTree, IPPrefixTree_show(prefixTree, None, FALSE, {}))
    /\ ReturnsSorted(radixTree, IPRadixTree_show(radixTree, None, FALSE, {}))
    /\ \A p \in Prefixes, attrs \in AttrMaps :
          /\ ReturnsSorted(prefixTree, IPPrefixTree_show(prefixTree, p, TRUE, attrs))
          /\ ReturnsSorted(prefixTree, IPPrefixTree_match(prefixTree, p, attrs))
          /\ StoredAt(prefixTree, p) # <<>> =>
                ReturnsSorted(prefixTree, IPPrefixTree_children(prefixTree, p, attrs))
          /\ ReturnsSorted(radixTree, IPRadixTree_show(radixTree, p, TRUE, attrs))
          /\ ReturnsSorted(radixTree, IPRadixTree_match(radixTree, p, attrs))
          /\ StoredAt(radixTree, p) # <<>> =>
                ReturnsSorted(radixTree, IPRadixTree_children(radixTree, p, attrs))
    /\ \A A, W \in AddressInts, attrs \in AttrMaps :
          /\ ReturnsSorted(prefixTree, IPPrefixTree_wcmatch(prefixTree, A, W, attrs))
          /\ ReturnsSorted(radixTree, IPRadixTree_wcmatch(radixTree, A, W, attrs))

\* C25 (as stated): while the loop of flush(attrs) has items left on its
\* stack, the structure of the trie is what it was when the loop started: no
\* bucket is removed, no branch detached and no radix node merged before the
\* traversal has come to its end.
C25_FlushCollectsFirst ==
    pending.op = "flush" => Shape(Iterated) = Shape(pending.start)

\* add(prefix) splits an edge of t: its walk puts a node between two others.
IPRadixTree_add_splits(t, prefix) ==
    Len(IPRadixTree_add_walk(t.heap, 1, new_dict_without_key(StarKey, t.heap[1]),
                             bits_in_prefix(prefix)).h) > Len(t.heap)

\* The buckets of a table, each with the full path that leads to it.
Buckets(t) ==
    LET paths == PathsFrom(t.heap, 1, <<>>)
    IN  { <<paths[n].path, t.heap[paths[n].id].routes>> :
              n \in { m \in 1..Len(paths) : t.heap[paths[m].id].isList } }

\* C26: when add splits an edge of the radix tree, every bucket stays under
\* the full path it had, show(q) returns for every stored prefix q the bucket
\* q had before the add, and the only new content is the bucket of the one
\* Route that was added.
C26_SplitPreservesRoutes ==
    \A p \in Prefixes, attrs \in AttrMaps :
        IPRadixTree_add_splits(radixTree, p) =>
            LET after == After(radixTree, IPRadixTree_add(radixTree, p, attrs))
            IN  /\ Buckets(radixTree) \subseteq Buckets(after)
                /\ Buckets(after) \ Buckets(radixTree)
                      = { <<bits_in_prefix(p) \o StarKey, <<Route(p, attrs)>> >> }
                /\ after.counter = radixTree.counter + 1
                /\ \A q \in StoredPrefixes(radixTree) :
                      IPRadixTree_show(after, q, FALSE, {})
                         = Result("none", BucketAt(radixTree, bits_in_prefix(q)))

\* A table is pruned: every node but the root that has no child edge holds a
\* bucket, and no bucket is an empty list.
Pruned(t) ==
    /\ \A i \in Nodes(t) \ {1} :
          ChildEdges(t, i) = {} => HasKey(t.heap[i], StarKey)
    /\ NoEmptyBucket(t)

\* C27: after any sequence of add, delete and flush the prefix tree is pruned,
\* and a delete that returns leaves it pruned in the same call: the chain of
\* nodes that led to nothing but the emptied bucket is gone.
C27_PrefixTreeIsPruned ==
    /\ Pruned(prefixTree)
    /\ \A p \in Prefixes, attrs \in AttrMaps :
          LET o == IPPrefixTree_delete(prefixTree, p, attrs)
          IN  o.err = "none" => Pruned(After(prefixTree, o))

\* A state in which C27's case happens: a delete empties a childless node and
\* takes a chain of at least two nodes above it away, while routes stay in
\* another branch.
C27_Witness ==
    \E p \in StoredPrefixes(prefixTree) :
        LET o == IPPrefixTree_delete(prefixTree, p, {})
            after == After(prefixTree, o)
        IN  /\ o.err = "none"
            /\ Len(after.heap) + 4 <= Len(prefixTree.heap)
            /\ after.counter > 0
            /\ Pruned(after)

\* The bit-strings of the stored prefixes that lie on the path of p, p's own
\* included, and the bucket of the longest of them ([] when there is none).
OnPathOrAt(t, p) ==
    { b \in StoredBits(t) : IsPrefixOf(b, bits_in_prefix(p)) }
DeepestBucket(t, p) ==
    IF OnPathOrAt(t, p) = {} THEN <<>>
    ELSE BucketAt(t, CHOOSE b \in OnPathOrAt(t, p) :
                         \A c \in OnPathOrAt(t, p) : Len(c) <= Len(b))

\* C28: get(prefix, attrs) returns the routes that have all attrs of one
\* bucket, the deepest one on the path of the prefix, which is chosen without
\* regard to attrs; in both tries.
C28_GetIsTheDeepestBucket ==
    \A p \in Prefixes, attrs \in AttrMaps :
        /\ IPPrefixTree_get(prefixTree, p, attrs)
              = Result("none", objs_with_all_attrs(DeepestBucket(prefixTree, p), attrs))
        /\ IPRadixTree_get(radixTree, p, attrs)
              = Result("none", objs_with_all_attrs(DeepestBucket(radixTree, p), attrs))

\* The routes of a list that are of the family of prefix p, and of the other.
OfFamily(routes, p) == SelectSeq(routes, LAMBDA r : r.prefix.ver = p.ver)
OfOtherFamily(routes, p) == SelectSeq(routes, LAMBDA r : r.prefix.ver # p.ver)

\* What C29 says of the calls on a table t for a prefix p: the queries return
\* routes of p's family only, and delete leaves the routes of the other
\* family where they are.
IsolatedFamilies(t, p, attrs, get(_, _, _), match(_, _, _), parent(_, _, _),
                 show(_, _, _, _), delete(_, _, _)) ==
    /\ OfOtherFamily(get(t, p, attrs).val, p) = <<>>
    /\ OfOtherFamily(match(t, p, attrs).val, p) = <<>>
    /\ OfOtherFamily(parent(t, p, attrs).val, p) = <<>>
    /\ OfOtherFamily(show(t, p, FALSE, attrs).val, p) = <<>>
    /\ SameRoutes(OfOtherFamily(AllRoutes(After(t, delete(t, p, attrs))), p),
                  OfOtherFamily(AllRoutes(t), p))

\* C29 (as stated): get, match, parent, show(prefix) and delete for a prefix
\* of one address family never return or remove a route of the other family,
\* in both tries.
C29_FamilyIsolation ==
    \A p \in Prefixes, attrs \in AttrMaps :
        /\ IsolatedFamilies(prefixTree, p, attrs, IPPrefixTree_get,
               IPPrefixTree_match, IPPrefixTree_parent, IPPrefixTree_show,
               IPPrefixTree_delete)
        /\ IsolatedFamilies(radixTree, p, attrs, IPRadixTree_get,
               IPRadixTree_match, IPRadixTree_parent, IPRadixTree_show,
               IPRadixTree_delete)

\* The turns of the walks of IPRadixTree.show and IPRadixTree.delete for one
\* prefix: pointer, working copy and bits left before each turn and at the end.
RECURSIVE IPRadixTree_show_turns(_, _, _, _)
IPRadixTree_show_turns(h, pointer, nodes, prefix_bits) ==
    <<[pointer |-> pointer, nodes |-> nodes, prefix_bits |-> prefix_bits]>>
    \o IF nodes = <<>> \/ prefix_bits = <<>> THEN <<>>
       ELSE LET turn == IPRadixTree_show_step(h, pointer, nodes, prefix_bits)
            IN  IPRadixTree_show_turns(h, turn.pointer, turn.nodes, turn.prefix_bits)
RECURSIVE IPRadixTree_delete_turns(_, _, _, _, _)
IPRadixTree_delete_turns(h, pointer, nodes, prefix_bits, parents) ==
    <<[pointer |-> pointer, nodes |-> nodes, prefix_bits |-> prefix_bits]>>
    \o IF nodes = <<>> \/ prefix_bits = <<>> THEN <<>>
       ELSE LET turn == IPRadixTree_delete_step(h, pointer, nodes, prefix_bits,
                                                parents)
            IN  IPRadixTree_delete_turns(h, turn.pointer, turn.nodes,
                                         turn.prefix_bits, turn.parents)

\* Every turn discards one item of the working copy, or moves the pointer
\* down while it takes at least one bit off the prefix.
Discards(a, b) ==
    b.pointer = a.pointer /\ b.nodes = SubSeq(a.nodes, 1, Len(a.nodes) - 1)
Descends(a, b) ==
    b.pointer # a.pointer /\ Len(b.prefix_bits) < Len(a.prefix_bits)
TurnsEnd(turns) ==
    \A i \in 1..(Len(turns) - 1) :
        Discards(turns[i], turns[i + 1]) \/ Descends(turns[i], turns[i + 1])
WalksEnd(t) ==
    \A p \in Prefixes :
        /\ TurnsEnd(IPRadixTree_show_turns(t.heap, 1,
               new_dict_without_key(StarKey, t.heap[1]), bits_in_prefix(p)))
        /\ TurnsEnd(IPRadixTree_delete_turns(t.heap, 1,
               new_dict_without_key(StarKey, t.heap[1]), bits_in_prefix(p), <<>>))

\* C30: every turn of a radix walk discards one sibling of its working copy
\* or descends and consumes at least one bit, in every state, those inside a
\* flush included; and a flush(attrs) whose loop has started comes to its end,
\* in both tries, although it deletes and merges while its stack is not empty.
C30_Termination ==
    /\ [](pending.which = "radix" => WalksEnd(radixTree))
    /\ (pending.op = "flush") ~> (pending.op = "none")

\* A state in which C30's case happens: the loop of a flush on the radix tree
\* has changed the structure of the trie with items left on its stack, and a
\* walk on that trie both discards and descends.
C30_Witness ==
    /\ pending.op = "flush" /\ pending.which = "radix"
    /\ pending.g.nodes # <<>>
    /\ Shape(radixTree) # Shape(pending.start)
    /\ \E p \in Prefixes :
          LET turns == IPRadixTree_show_turns(radixTree.heap, 1,
                           new_dict_without_key(StarKey, radixTree.heap[1]),
                           bits_in_prefix(p))
          IN  /\ \E i \in 1..(Len(turns) - 1) : Discards(turns[i], turns[i + 1])
              /\ \E i \in 1..(Len(turns) - 1) : Descends(turns[i], turns[i + 1])

====
